---- MODULE Spec2Model ----
(***************************************************************************)
(* Media-catalog API: the album and song routers (create / update / delete *)
(* against a relational store and an object-storage bucket) and the        *)
(* like / unlike toggle.  Every request is one process; a process step is  *)
(* one call to the record store or to the bucket, so that requests served  *)
(* by different workers interleave between two such calls.                 *)
(***************************************************************************)
EXTENDS Integers, Sequences, FiniteSets, TLC

\* ------------------------------------------------------------------ bounds
NumProcs == 2      \* requests in flight at once
MaxBlobs == 3      \* uploads in one behaviour (blob names are never reused)
MaxId == 2         \* rows ever inserted in one table (autoincrement ids)
MaxDrift == 1      \* a like / unlike request starts while like_count is this close to the row count

\* ------------------------------------------------------- program constants
max_file_size == 1048576

allowed_types == {"image/jpeg", "image/png"}
allowed_cover_types == {"image/jpeg", "image/png"}
allowed_song_types == {"audio/mpeg", "audio/mp3", "audio/wav"}

\* ------------------------------------------------------------------ inputs
Procs == 1..NumProcs
Users == {1, 2}
Ids == 1..MaxId
None == "None"
Names == {"Echoes", "Dawn"}
Genres == {"pop"}
NoFile == [content_type |-> None, size |-> 0]
Files == [content_type : {"image/png", "audio/mpeg"}, size : {524288, 2097152}]

\* ------------------------------------------------------------- blob store
\* A blob is a number; its storage key and its public url are two different
\* values that both name it.
NoBlob == <<>>
Unbound == <<"unbound">>
KeyOf(b) == <<"key", b>>
UrlOf(b) == <<"url", b>>
IsRef(r) == Len(r) = 2
BlobOf(r) == r[2]

\* delete_file: removes the blob a key or a url names; a name that resolves to
\* no stored blob removes nothing.
delete_file(bkt, ref) == IF IsRef(ref) THEN bkt \ {BlobOf(ref)} ELSE bkt

\* ------------------------------------------------------------ record store
NoRow == [id |-> 0]
Get(table, id) == IF \E r \in table : r.id = id
                  THEN CHOOSE r \in table : r.id = id
                  ELSE NoRow
SameNameAndSinger(table, name, user) ==
    {r \in table : r.name = name /\ r.singer_id = user}

VARIABLES albums, songs, song_likes, bucket, nextBlob, nextAlbumId, nextSongId,
          pc, loc, resp, last

vars == <<albums, songs, song_likes, bucket, nextBlob, nextAlbumId, nextSongId,
          pc, loc, resp, last>>

stores == <<albums, songs, song_likes, bucket>>

\* The locals of a request.  A request rejected before it reads a parameter
\* leaves that parameter at its default here; viol tells that a file of the
\* request breaks the upload policy, log lists the calls made so far.
NoLoc == [op |-> "none", user |-> 0, id |-> 0, name |-> None, genre |-> None,
          viol |-> FALSE, hasCover |-> FALSE, row |-> NoRow,
          blob_name |-> Unbound, public_url |-> Unbound,
          song_blob_name |-> Unbound, song_public_url |-> Unbound,
          already_liked |-> FALSE, log |-> <<>>]
NoResp == [status |-> 0, detail |-> "none"]
\* last: the request that returned before the current one, with Song_Likes and
\* Songs as they were before it and after it; kept where two requests in a row
\* are compared.
Tables == <<song_likes, songs>>
NoLast == [op |-> "none", user |-> 0, id |-> 0, status |-> 0,
           before |-> Tables, after |-> Tables]

Init ==
    /\ albums = {}
    /\ songs = {}
    /\ song_likes = [e \in Users \X Ids |-> 0]
    /\ bucket = {}
    /\ nextBlob = 1
    /\ nextAlbumId = 1
    /\ nextSongId = 1
    /\ pc = [p \in Procs |-> "idle"]
    /\ loc = [p \in Procs |-> NoLoc]
    /\ resp = [p \in Procs |-> NoResp]
    /\ last = NoLast

\* ------------------------------------------------------------ shared steps
AllIdle == \A q \in Procs : pc[q] = "idle"

\* Uploads the requests in flight may still make.
Pending(q) == CASE pc[q] = "cs_upload_song" -> 2
                [] pc[q] \in {"ca_upload", "cs_upload_cover", "ua_upload", "us_upload"} -> 1
                [] OTHER -> 0
RECURSIVE SumPending(_)
SumPending(S) == IF S = {} THEN 0
                 ELSE LET q == CHOOSE x \in S : TRUE
                      IN Pending(q) + SumPending(S \ {q})
BlobsLeft == MaxBlobs - (nextBlob - 1) - SumPending(Procs)

\* The request enters its handler with fresh locals.
Enter(p, l, next) ==
    /\ pc' = [pc EXCEPT ![p] = next]
    /\ loc' = [loc EXCEPT ![p] = l]
    /\ UNCHANGED <<resp, last>>

\* raise HTTPException(status_code, detail) before the handler did anything.
Reject(p, l, status, detail) ==
    /\ pc' = [pc EXCEPT ![p] = "done"]
    /\ loc' = [loc EXCEPT ![p] = l]
    /\ resp' = [resp EXCEPT ![p] = [status |-> status, detail |-> detail]]
    /\ last' = last

\* The handler goes on to its next call.
Goto(p, l, next) ==
    /\ pc' = [pc EXCEPT ![p] = next]
    /\ loc' = [loc EXCEPT ![p] = l]
    /\ UNCHANGED <<resp, last>>

\* The handler returns or raises.
Finish(p, l, status, detail) ==
    /\ pc' = [pc EXCEPT ![p] = "done"]
    /\ loc' = [loc EXCEPT ![p] = l]
    /\ resp' = [resp EXCEPT ![p] = [status |-> status, detail |-> detail]]
    /\ last' = last

\* upload_file: a new blob under a name never used before; the blob name and
\* the public url come back.
upload_file == bucket \cup {nextBlob}

\* except Exception: session.rollback() comes first; when it raises, the rest
\* of the handler is skipped.  Otherwise the handler goes on to comp when a
\* clean-up call follows, and raises the 500 at once when none does.
Except(p, l, ev, rb, comp) ==
    IF rb /\ comp # "none"
    THEN Goto(p, [l EXCEPT !.log = @ \o <<ev, "rollback_ok">>], comp)
    ELSE Finish(p, [l EXCEPT !.log = @ \o <<ev, IF rb THEN "rollback_ok" ELSE "rollback_fail">>],
                500, "error")

\* The response has been sent; the worker takes the next request.
Return(p) ==
    /\ pc[p] = "done"
    /\ pc' = [pc EXCEPT ![p] = "idle"]
    /\ loc' = [loc EXCEPT ![p] = NoLoc]
    /\ resp' = [resp EXCEPT ![p] = NoResp]
    /\ last' = last
    /\ UNCHANGED <<stores, nextBlob, nextAlbumId, nextSongId>>

\* The upload policy the handlers are to enforce on a cover and on an audio file.
CoverOk(f) == f.content_type \in allowed_cover_types /\ f.size <= max_file_size
SongOk(f) == f.content_type \in allowed_song_types

\* ------------------------------------------------------------ create_album
CreateAlbumBegin(p, free, user, name, cover) ==
    /\ pc[p] = "idle" /\ free
    /\ LET v == [NoLoc EXCEPT !.op = "create_album", !.user = user,
                              !.hasCover = TRUE, !.viol = ~CoverOk(cover)]
           l == [v EXCEPT !.name = name]
           existing == SameNameAndSinger(albums, name, user)
       IN IF cover.content_type \notin allowed_types THEN Reject(p, v, 400, "validation")
          ELSE IF cover.size > max_file_size THEN Reject(p, v, 400, "validation")
          ELSE IF Cardinality(existing) > 1 THEN Reject(p, l, 500, "error")
          ELSE IF existing # {} THEN Reject(p, l, 400, "conflict")
          ELSE nextAlbumId <= MaxId /\ BlobsLeft >= 1 /\ Enter(p, l, "ca_upload")
    /\ UNCHANGED <<stores, nextBlob, nextAlbumId, nextSongId>>

CreateAlbumUpload(p) ==
    /\ pc[p] = "ca_upload"
    /\ \E ok \in BOOLEAN, rb \in BOOLEAN :
         IF ok
         THEN /\ rb
              /\ bucket' = upload_file
              /\ nextBlob' = nextBlob + 1
              /\ Goto(p, [loc[p] EXCEPT !.blob_name = KeyOf(nextBlob),
                                        !.public_url = UrlOf(nextBlob),
                                        !.log = @ \o <<"upload_ok">>], "ca_commit")
         ELSE \* blob_name is unbound in the except block: it raises too
              /\ Except(p, loc[p], "upload_fail", rb, "none")
              /\ UNCHANGED <<bucket, nextBlob>>
    /\ UNCHANGED <<albums, songs, song_likes, nextAlbumId, nextSongId>>

NewAlbum(l, id) == [id |-> id, name |-> l.name, singer_id |-> l.user,
                    cover |-> l.blob_name, cover_url |-> l.public_url]

CreateAlbumCommit(p) ==
    /\ pc[p] = "ca_commit"
    /\ \E ok \in BOOLEAN, rb \in BOOLEAN :
         IF ok
         THEN /\ rb
              /\ albums' = albums \cup {NewAlbum(loc[p], nextAlbumId)}
              /\ nextAlbumId' = nextAlbumId + 1
              /\ Finish(p, [loc[p] EXCEPT !.id = nextAlbumId, !.log = @ \o <<"commit_ok">>],
                        200, "ok")
         ELSE /\ Except(p, loc[p], "commit_fail", rb, "ca_comp")
              /\ UNCHANGED <<albums, nextAlbumId>>
    /\ UNCHANGED <<songs, song_likes, bucket, nextBlob, nextSongId>>

CreateAlbumCompensate(p) ==
    /\ pc[p] = "ca_comp"
    /\ \E ok \in BOOLEAN :
         /\ bucket' = IF ok THEN delete_file(bucket, loc[p].blob_name) ELSE bucket
         /\ Finish(p, [loc[p] EXCEPT !.log = @ \o <<IF ok THEN "delete_ok" ELSE "delete_fail">>],
                   500, "error")
    /\ UNCHANGED <<albums, songs, song_likes, nextBlob, nextAlbumId, nextSongId>>

\* ------------------------------------------------------------- create_song
CreateSongBegin(p, free, user, name, genre, song, cover) ==
    /\ pc[p] = "idle" /\ free
    /\ LET v == [NoLoc EXCEPT !.op = "create_song", !.user = user, !.hasCover = TRUE,
                              !.viol = ~(CoverOk(cover) /\ SongOk(song))]
           l == [v EXCEPT !.name = name, !.genre = genre]
           existing == SameNameAndSinger(songs, name, user)
       IN IF song.content_type \notin allowed_song_types
             /\ cover.content_type \notin allowed_cover_types
          THEN Reject(p, v, 400, "validation")
          ELSE IF song.content_type \notin allowed_song_types
          THEN Reject(p, v, 400, "validation")
          ELSE IF cover.content_type \notin allowed_cover_types
          THEN Reject(p, v, 400, "validation")
          ELSE IF Cardinality(existing) > 1 THEN Reject(p, l, 500, "error")
          ELSE IF existing # {} THEN Reject(p, l, 400, "conflict")
          ELSE nextSongId <= MaxId /\ BlobsLeft >= 2 /\ Enter(p, l, "cs_upload_song")
    /\ UNCHANGED <<stores, nextBlob, nextAlbumId, nextSongId>>

CreateSongUploadSong(p) ==
    /\ pc[p] = "cs_upload_song"
    /\ \E ok \in BOOLEAN, rb \in BOOLEAN :
         IF ok
         THEN /\ rb
              /\ bucket' = upload_file
              /\ nextBlob' = nextBlob + 1
              /\ Goto(p, [loc[p] EXCEPT !.song_blob_name = KeyOf(nextBlob),
                                        !.song_public_url = UrlOf(nextBlob),
                                        !.log = @ \o <<"upload_ok">>], "cs_upload_cover")
         ELSE \* song_blob_name is unbound in the except block: it raises too
              /\ Except(p, loc[p], "upload_fail", rb, "none")
              /\ UNCHANGED <<bucket, nextBlob>>
    /\ UNCHANGED <<albums, songs, song_likes, nextAlbumId, nextSongId>>

CreateSongUploadCover(p) ==
    /\ pc[p] = "cs_upload_cover"
    /\ \E ok \in BOOLEAN, rb \in BOOLEAN :
         IF ok
         THEN /\ rb
              /\ bucket' = upload_file
              /\ nextBlob' = nextBlob + 1
              /\ Goto(p, [loc[p] EXCEPT !.blob_name = KeyOf(nextBlob),
                                        !.public_url = UrlOf(nextBlob),
                                        !.log = @ \o <<"upload_ok">>], "cs_commit")
         ELSE /\ Except(p, loc[p], "upload_fail", rb, "cs_comp_song")
              /\ UNCHANGED <<bucket, nextBlob>>
    /\ UNCHANGED <<albums, songs, song_likes, nextAlbumId, nextSongId>>

NewSong(l, id) == [id |-> id, name |-> l.name, singer_id |-> l.user, genre |-> l.genre,
                   cover |-> l.blob_name, cover_url |-> l.public_url,
                   song |-> l.song_blob_name, song_url |-> l.song_public_url,
                   like_count |-> 0]

CreateSongCommit(p) ==
    /\ pc[p] = "cs_commit"
    /\ \E ok \in BOOLEAN, rb \in BOOLEAN :
         IF ok
         THEN /\ rb
              /\ songs' = songs \cup {NewSong(loc[p], nextSongId)}
              /\ nextSongId' = nextSongId + 1
              /\ Finish(p, [loc[p] EXCEPT !.id = nextSongId, !.log = @ \o <<"commit_ok">>],
                        200, "ok")
         ELSE /\ Except(p, loc[p], "commit_fail", rb, "cs_comp_song")
              /\ UNCHANGED <<songs, nextSongId>>
    /\ UNCHANGED <<albums, song_likes, bucket, nextBlob, nextAlbumId>>

\* if song_blob_name: delete_file(bucket, song_blob_name); when that raises the
\* cover is not reached, and neither is it when cover_blob_name is unbound.
CreateSongCompensateSong(p) ==
    /\ pc[p] = "cs_comp_song"
    /\ \E ok \in BOOLEAN :
         /\ bucket' = IF ok THEN delete_file(bucket, loc[p].song_blob_name) ELSE bucket
         /\ IF ok /\ loc[p].blob_name # Unbound
            THEN Goto(p, [loc[p] EXCEPT !.log = @ \o <<"delete_ok">>], "cs_comp_cover")
            ELSE Finish(p, [loc[p] EXCEPT !.log = @ \o <<IF ok THEN "delete_ok" ELSE "delete_fail">>],
                        500, "error")
    /\ UNCHANGED <<albums, songs, song_likes, nextBlob, nextAlbumId, nextSongId>>

CreateSongCompensateCover(p) ==
    /\ pc[p] = "cs_comp_cover"
    /\ \E ok \in BOOLEAN :
         /\ bucket' = IF ok THEN delete_file(bucket, loc[p].blob_name) ELSE bucket
         /\ Finish(p, [loc[p] EXCEPT !.log = @ \o <<IF ok THEN "delete_ok" ELSE "delete_fail">>],
                   500, "error")
    /\ UNCHANGED <<albums, songs, song_likes, nextBlob, nextAlbumId, nextSongId>>

\* ------------------------------------------------------------ update_album
\* cover.content_type is read before cover is tested for None: without a cover
\* the read raises, outside the try block.
UpdateAlbumBegin(p, free, user, album_id, name, cover) ==
    /\ pc[p] = "idle" /\ free
    /\ LET album_db == Get(albums, album_id)
           g == [NoLoc EXCEPT !.op = "update_album", !.user = user, !.id = album_id,
                              !.row = album_db]
           v == [g EXCEPT !.hasCover = (cover # NoFile),
                          !.viol = (cover # NoFile /\ ~CoverOk(cover))]
           l == [v EXCEPT !.name = name]
           existing == SameNameAndSinger(albums, name, user)
       IN IF album_db = NoRow THEN Reject(p, g, 404, "not_found")
          ELSE IF album_db.singer_id # user THEN Reject(p, g, 403, "forbidden")
          ELSE IF cover = NoFile THEN Reject(p, l, 500, "error")
          ELSE IF cover.content_type \notin allowed_types THEN Reject(p, v, 400, "validation")
          ELSE IF cover.size > max_file_size THEN Reject(p, v, 400, "validation")
          ELSE IF Cardinality(existing) > 1 THEN Reject(p, l, 500, "error")
          ELSE IF existing # {} THEN Reject(p, l, 400, "conflict")
          ELSE BlobsLeft >= 1 /\ Enter(p, l, "ua_upload")
    /\ UNCHANGED <<stores, nextBlob, nextAlbumId, nextSongId>>

\* update_album with the two calls swapped: delete_file(bucket, album_db.cover)
\* first, upload_file after it.
UpdateAlbumDeleteFirst(p) ==
    /\ pc[p] = "ua_upload"
    /\ \E ok \in BOOLEAN, rb \in BOOLEAN :
         IF ok
         THEN /\ rb
              /\ bucket' = delete_file(bucket, loc[p].row.cover) \cup {nextBlob}
              /\ nextBlob' = nextBlob + 1
              /\ Goto(p, [loc[p] EXCEPT !.blob_name = KeyOf(nextBlob),
                                        !.public_url = UrlOf(nextBlob),
                                        !.log = @ \o <<"delete_ok", "upload_ok">>], "ua_commit")
         ELSE /\ Except(p, loc[p], "upload_fail", rb, "none")
              /\ bucket' = delete_file(bucket, loc[p].row.cover)
              /\ nextBlob' = nextBlob
    /\ UNCHANGED <<albums, songs, song_likes, nextAlbumId, nextSongId>>

UpdateAlbumUpload(p) ==
    /\ pc[p] = "ua_upload"
    /\ \E ok \in BOOLEAN, rb \in BOOLEAN :
         IF ok
         THEN /\ rb
              /\ bucket' = upload_file
              /\ nextBlob' = nextBlob + 1
              /\ Goto(p, [loc[p] EXCEPT !.blob_name = KeyOf(nextBlob),
                                        !.public_url = UrlOf(nextBlob),
                                        !.log = @ \o <<"upload_ok">>], "ua_delete_old")
         ELSE \* blob_name is unbound in the except block: it raises too
              /\ Except(p, loc[p], "upload_fail", rb, "none")
              /\ UNCHANGED <<bucket, nextBlob>>
    /\ UNCHANGED <<albums, songs, song_likes, nextAlbumId, nextSongId>>

\* delete_file(bucket, album_db.cover)
UpdateAlbumDeleteOld(p) ==
    /\ pc[p] = "ua_delete_old"
    /\ \E ok \in BOOLEAN, rb \in BOOLEAN :
         IF ok
         THEN /\ rb
              /\ bucket' = delete_file(bucket, loc[p].row.cover)
              /\ Goto(p, [loc[p] EXCEPT !.log = @ \o <<"delete_ok">>], "ua_commit")
         ELSE /\ Except(p, loc[p], "delete_fail", rb, "ua_comp")
              /\ bucket' = bucket
    /\ UNCHANGED <<albums, songs, song_likes, nextBlob, nextAlbumId, nextSongId>>

\* An update that writes every column of the row, the owner among them.
UpdatedAlbumClearsOwner(row, l) ==
    [row EXCEPT !.cover = l.blob_name, !.cover_url = l.public_url,
                !.name = IF l.name # None THEN l.name ELSE @, !.singer_id = 0]

\* album_db.sqlmodel_update(album.model_dump(exclude_unset=True)): the cover,
\* the cover url and, when given, the name.
UpdatedAlbum(row, l) == [row EXCEPT !.cover = l.blob_name, !.cover_url = l.public_url,
                                    !.name = IF l.name # None THEN l.name ELSE @]

\* The UPDATE of a row that is gone matches nothing, and the flush raises.
UpdateAlbumCommit(p) ==
    /\ pc[p] = "ua_commit"
    /\ \E ok \in BOOLEAN, rb \in BOOLEAN :
         IF ok /\ Get(albums, loc[p].id) # NoRow
         THEN /\ rb
              /\ albums' = (albums \ {Get(albums, loc[p].id)})
                             \cup {UpdatedAlbum(Get(albums, loc[p].id), loc[p])}
              /\ Finish(p, [loc[p] EXCEPT !.log = @ \o <<"commit_ok">>], 200, "ok")
         ELSE /\ Except(p, loc[p], "commit_fail", rb, "ua_comp")
              /\ albums' = albums
    /\ UNCHANGED <<songs, song_likes, bucket, nextBlob, nextAlbumId, nextSongId>>

UpdateAlbumCompensate(p) ==
    /\ pc[p] = "ua_comp"
    /\ \E ok \in BOOLEAN :
         /\ bucket' = IF ok THEN delete_file(bucket, loc[p].blob_name) ELSE bucket
         /\ Finish(p, [loc[p] EXCEPT !.log = @ \o <<IF ok THEN "delete_ok" ELSE "delete_fail">>],
                   500, "error")
    /\ UNCHANGED <<albums, songs, song_likes, nextBlob, nextAlbumId, nextSongId>>

\* ------------------------------------------------------------- update_song
UpdateSongBegin(p, free, user, song_id, name, genre, cover) ==
    /\ pc[p] = "idle" /\ free
    /\ LET song_db == Get(songs, song_id)
           g == [NoLoc EXCEPT !.op = "update_song", !.user = user, !.id = song_id,
                              !.row = song_db]
           v == [g EXCEPT !.hasCover = (cover # NoFile),
                          !.viol = (cover # NoFile /\ ~CoverOk(cover))]
           l == [v EXCEPT !.name = name, !.genre = genre]
           existing == SameNameAndSinger(songs, name, user)
       IN IF song_db = NoRow THEN Reject(p, g, 404, "not_found")
          ELSE IF song_db.singer_id # user THEN Reject(p, g, 403, "forbidden")
          ELSE IF cover = NoFile THEN Reject(p, l, 500, "error")
          ELSE IF cover.content_type \notin allowed_cover_types
          THEN Reject(p, v, 400, "validation")
          ELSE IF Cardinality(existing) > 1 THEN Reject(p, l, 500, "error")
          ELSE IF existing # {} THEN Reject(p, l, 400, "conflict")
          ELSE BlobsLeft >= 1 /\ Enter(p, l, "us_upload")
    /\ UNCHANGED <<stores, nextBlob, nextAlbumId, nextSongId>>

\* The except block of update_song rolls back and raises: it deletes nothing.
UpdateSongUpload(p) ==
    /\ pc[p] = "us_upload"
    /\ \E ok \in BOOLEAN, rb \in BOOLEAN :
         IF ok
         THEN /\ rb
              /\ bucket' = upload_file
              /\ nextBlob' = nextBlob + 1
              /\ Goto(p, [loc[p] EXCEPT !.blob_name = KeyOf(nextBlob),
                                        !.public_url = UrlOf(nextBlob),
                                        !.log = @ \o <<"upload_ok">>], "us_delete_old")
         ELSE /\ Except(p, loc[p], "upload_fail", rb, "none")
              /\ UNCHANGED <<bucket, nextBlob>>
    /\ UNCHANGED <<albums, songs, song_likes, nextAlbumId, nextSongId>>

\* song = SongUpdate(); delete_file(bucket, song.cover): the cover of the fresh
\* SongUpdate, which is None, not the cover of song_db.
UpdateSongDeleteOld(p) ==
    /\ pc[p] = "us_delete_old"
    /\ \E ok \in BOOLEAN, rb \in BOOLEAN :
         IF ok
         THEN /\ rb
              /\ bucket' = delete_file(bucket, NoBlob)
              /\ Goto(p, [loc[p] EXCEPT !.log = @ \o <<"delete_ok">>], "us_commit")
         ELSE /\ Except(p, loc[p], "delete_fail", rb, "none")
              /\ bucket' = bucket
    /\ UNCHANGED <<albums, songs, song_likes, nextBlob, nextAlbumId, nextSongId>>

\* song_db.name and song_db.genre are set when given; the new cover is set on
\* the SongUpdate object, which is never applied to song_db.
UpdatedSong(row, l) == [row EXCEPT !.name = IF l.name # None THEN l.name ELSE @,
                                   !.genre = IF l.genre # None THEN l.genre ELSE @]

UpdateSongCommit(p) ==
    /\ pc[p] = "us_commit"
    /\ \E ok \in BOOLEAN, rb \in BOOLEAN :
         IF ok /\ Get(songs, loc[p].id) # NoRow
         THEN /\ rb
              /\ songs' = (songs \ {Get(songs, loc[p].id)})
                            \cup {UpdatedSong(Get(songs, loc[p].id), loc[p])}
              /\ Finish(p, [loc[p] EXCEPT !.log = @ \o <<"commit_ok">>], 200, "ok")
         ELSE /\ Except(p, loc[p], "commit_fail", rb, "none")
              /\ songs' = songs
    /\ UNCHANGED <<albums, song_likes, bucket, nextBlob, nextAlbumId, nextSongId>>

\* ------------------------------------------------------------ delete_album
\* delete_album without the test of album.singer_id.
DeleteAlbumUnchecked(p, free, user, album_id) ==
    /\ pc[p] = "idle" /\ free
    /\ LET album == Get(albums, album_id)
           l == [NoLoc EXCEPT !.op = "delete_album", !.user = user, !.id = album_id,
                              !.row = album]
       IN IF album = NoRow THEN Reject(p, l, 404, "not_found")
          ELSE Enter(p, l, "da_delete_cover")
    /\ UNCHANGED <<stores, nextBlob, nextAlbumId, nextSongId>>

DeleteAlbumBegin(p, free, user, album_id) ==
    /\ pc[p] = "idle" /\ free
    /\ LET album == Get(albums, album_id)
           l == [NoLoc EXCEPT !.op = "delete_album", !.user = user, !.id = album_id,
                              !.row = album]
       IN IF album = NoRow THEN Reject(p, l, 404, "not_found")
          ELSE IF album.singer_id # user THEN Reject(p, l, 403, "forbidden")
          ELSE Enter(p, l, "da_delete_cover")
    /\ UNCHANGED <<stores, nextBlob, nextAlbumId, nextSongId>>

\* delete_album without its call of delete_file.
DeleteAlbumKeepCover(p) ==
    /\ pc[p] = "da_delete_cover"
    /\ Goto(p, [loc[p] EXCEPT !.log = @ \o <<"delete_ok">>], "da_commit")
    /\ UNCHANGED <<stores, nextBlob, nextAlbumId, nextSongId>>

\* delete_file(bucket, album.cover)
DeleteAlbumDeleteCover(p) ==
    /\ pc[p] = "da_delete_cover"
    /\ \E ok \in BOOLEAN, rb \in BOOLEAN :
         IF ok
         THEN /\ rb
              /\ bucket' = delete_file(bucket, loc[p].row.cover)
              /\ Goto(p, [loc[p] EXCEPT !.log = @ \o <<"delete_ok">>], "da_commit")
         ELSE /\ Except(p, loc[p], "delete_fail", rb, "none")
              /\ bucket' = bucket
    /\ UNCHANGED <<albums, songs, song_likes, nextBlob, nextAlbumId, nextSongId>>

\* session.delete(album); session.commit()
DeleteAlbumCommit(p) ==
    /\ pc[p] = "da_commit"
    /\ \E ok \in BOOLEAN, rb \in BOOLEAN :
         IF ok
         THEN /\ rb
              /\ albums' = {r \in albums : r.id # loc[p].id}
              /\ Finish(p, [loc[p] EXCEPT !.log = @ \o <<"commit_ok">>], 200, "ok")
         ELSE /\ Except(p, loc[p], "commit_fail", rb, "none")
              /\ albums' = albums
    /\ UNCHANGED <<songs, song_likes, bucket, nextBlob, nextAlbumId, nextSongId>>

\* ------------------------------------------------------------- delete_song
DeleteSongBegin(p, free, user, song_id) ==
    /\ pc[p] = "idle" /\ free
    /\ LET song_db == Get(songs, song_id)
           l == [NoLoc EXCEPT !.op = "delete_song", !.user = user, !.id = song_id,
                              !.row = song_db]
       IN IF song_db = NoRow THEN Reject(p, l, 404, "not_found")
          ELSE IF song_db.singer_id # user THEN Reject(p, l, 403, "forbidden")
          ELSE Enter(p, l, "ds_delete_song")
    /\ UNCHANGED <<stores, nextBlob, nextAlbumId, nextSongId>>

\* delete_file(bucket, song_db.song_url)
DeleteSongDeleteSong(p) ==
    /\ pc[p] = "ds_delete_song"
    /\ \E ok \in BOOLEAN, rb \in BOOLEAN :
         IF ok
         THEN /\ rb
              /\ bucket' = delete_file(bucket, loc[p].row.song_url)
              /\ Goto(p, [loc[p] EXCEPT !.log = @ \o <<"delete_ok">>],
                      IF loc[p].row.cover_url # NoBlob THEN "ds_delete_cover" ELSE "ds_commit")
         ELSE /\ Except(p, loc[p], "delete_fail", rb, "none")
              /\ bucket' = bucket
    /\ UNCHANGED <<albums, songs, song_likes, nextBlob, nextAlbumId, nextSongId>>

\* if song_db.cover_url: delete_file(bucket, song_db.cover_url)
DeleteSongDeleteCover(p) ==
    /\ pc[p] = "ds_delete_cover"
    /\ \E ok \in BOOLEAN, rb \in BOOLEAN :
         IF ok
         THEN /\ rb
              /\ bucket' = delete_file(bucket, loc[p].row.cover_url)
              /\ Goto(p, [loc[p] EXCEPT !.log = @ \o <<"delete_ok">>], "ds_commit")
         ELSE /\ Except(p, loc[p], "delete_fail", rb, "none")
              /\ bucket' = bucket
    /\ UNCHANGED <<albums, songs, song_likes, nextBlob, nextAlbumId, nextSongId>>

DeleteSongCommit(p) ==
    /\ pc[p] = "ds_commit"
    /\ \E ok \in BOOLEAN, rb \in BOOLEAN :
         IF ok
         THEN /\ rb
              /\ songs' = {r \in songs : r.id # loc[p].id}
              /\ Finish(p, [loc[p] EXCEPT !.log = @ \o <<"commit_ok">>], 200, "ok")
         ELSE /\ Except(p, loc[p], "commit_fail", rb, "none")
              /\ songs' = songs
    /\ UNCHANGED <<albums, song_likes, bucket, nextBlob, nextAlbumId, nextSongId>>

\* ----------------------------------------------------- like_or_unlike_song
\* The number of Song_Likes rows of a song.
RECURSIVE EdgeSum(_, _)
EdgeSum(U, id) == IF U = {} THEN 0
                  ELSE LET u == CHOOSE x \in U : TRUE
                       IN song_likes[<<u, id>>] + EdgeSum(U \ {u}, id)

\* song = session.get(Songs, song_id)
LikeBegin(p, free, user, song_id) ==
    /\ pc[p] = "idle" /\ free
    /\ LET song == Get(songs, song_id)
           l == [NoLoc EXCEPT !.op = "like_or_unlike_song", !.user = user,
                              !.id = song_id, !.row = song]
       IN IF song = NoRow THEN Reject(p, l, 404, "not_found")
          ELSE /\ song.like_count - EdgeSum(Users, song_id) \in -MaxDrift..MaxDrift
               /\ Enter(p, l, "lk_select")
    /\ UNCHANGED <<stores, nextBlob, nextAlbumId, nextSongId>>

\* already_liked = select(Song_Likes).where(...).one_or_none(), which raises on
\* more than one row.
LikeSelect(p) ==
    /\ pc[p] = "lk_select"
    /\ LET n == song_likes[<<loc[p].user, loc[p].id>>]
       IN IF n > 1 THEN Finish(p, [loc[p] EXCEPT !.row = NoRow], 500, "error")
          ELSE Goto(p, [loc[p] EXCEPT !.already_liked = (n = 1)], "lk_commit")
    /\ UNCHANGED <<stores, nextBlob, nextAlbumId, nextSongId>>

\* song.like_count -= 1 and song.like_count += 1, on the song object the
\* session loaded.
UnlikedKeepsCount(like_count) == like_count
Unliked(like_count) == like_count - 1
Liked(like_count) == like_count + 1

\* Song_Likes holds one row for a (user_id, song_id) pair: the INSERT of a
\* second one violates the constraint.
InsertUnchecked(likes, e) == TRUE
InsertAllowed(likes, e) == likes[e] = 0

\* The flush writes the edge and UPDATE songs SET like_count = <the value the
\* session computed> in one transaction.
LikeCommit(p) ==
    /\ pc[p] = "lk_commit"
    /\ LET l == loc[p]
           r == [l EXCEPT !.row = NoRow, !.already_liked = FALSE]
           e == <<l.user, l.id>>
           song == Get(songs, l.id)
           can == /\ song # NoRow
                  /\ l.already_liked \/ InsertAllowed(song_likes, e)
       IN \E ok \in BOOLEAN :
            IF ok /\ can
            THEN /\ song_likes' = [song_likes EXCEPT ![e] =
                                     IF l.already_liked THEN (IF @ > 0 THEN @ - 1 ELSE 0)
                                     ELSE @ + 1]
                 /\ songs' = (songs \ {song}) \cup
                               {[song EXCEPT !.like_count =
                                   IF l.already_liked THEN Unliked(l.row.like_count)
                                   ELSE Liked(l.row.like_count)]}
                 /\ Finish(p, [r EXCEPT !.log = @ \o <<"commit_ok">>], 200,
                           IF l.already_liked THEN "unliked" ELSE "liked")
            ELSE /\ UNCHANGED <<song_likes, songs>>
                 /\ Finish(p, [r EXCEPT !.log = @ \o <<"commit_fail">>], 500, "error")
    /\ UNCHANGED <<albums, bucket, nextBlob, nextAlbumId, nextSongId>>

\* ---------------------------------------------------------- specifications
NameOpt == Names \cup {None}
GenreOpt == Genres \cup {None}
FileOpt == Files \cup {NoFile}

\* Requests served one at a time, by one worker.
Worker == CHOOSE p \in Procs : TRUE

SeqNext ==
    \/ \E user \in Users, name \in Names, cover \in Files :
         CreateAlbumBegin(Worker, AllIdle, user, name, cover)
    \/ CreateAlbumUpload(Worker)
    \/ CreateAlbumCommit(Worker)
    \/ CreateAlbumCompensate(Worker)
    \/ \E user \in Users, id \in Ids, name \in NameOpt, cover \in FileOpt :
         UpdateAlbumBegin(Worker, AllIdle, user, id, name, cover)
    \/ UpdateAlbumUpload(Worker)
    \/ UpdateAlbumDeleteOld(Worker)
    \/ UpdateAlbumCommit(Worker)
    \/ UpdateAlbumCompensate(Worker)
    \/ \E user \in Users, id \in Ids : DeleteAlbumBegin(Worker, AllIdle, user, id)
    \/ DeleteAlbumDeleteCover(Worker)
    \/ DeleteAlbumCommit(Worker)
    \/ \E user \in Users, name \in Names, genre \in Genres, song \in Files, cover \in Files :
         CreateSongBegin(Worker, AllIdle, user, name, genre, song, cover)
    \/ CreateSongUploadSong(Worker)
    \/ CreateSongUploadCover(Worker)
    \/ CreateSongCommit(Worker)
    \/ CreateSongCompensateSong(Worker)
    \/ CreateSongCompensateCover(Worker)
    \/ \E user \in Users, id \in Ids, name \in NameOpt, genre \in GenreOpt, cover \in FileOpt :
         UpdateSongBegin(Worker, AllIdle, user, id, name, genre, cover)
    \/ UpdateSongUpload(Worker)
    \/ UpdateSongDeleteOld(Worker)
    \/ UpdateSongCommit(Worker)
    \/ \E user \in Users, id \in Ids : DeleteSongBegin(Worker, AllIdle, user, id)
    \/ DeleteSongDeleteSong(Worker)
    \/ DeleteSongDeleteCover(Worker)
    \/ DeleteSongCommit(Worker)
    \/ Return(Worker)
SeqSpec == Init /\ [][SeqNext]_vars

\* Requests served by several workers at once: a request's calls to the record
\* store and to the bucket interleave with those of the others.
\* Inputs of the concurrent specification: one caller and files that pass
\* validation, so that the requests meet in the stores.
ConcUsers == {1}
ConcSongs == {[content_type |-> "audio/mpeg", size |-> 524288]}
ConcCovers == {[content_type |-> "image/png", size |-> 524288]}
Next ==
    \/ \E p \in Procs, user \in ConcUsers, name \in Names, cover \in ConcCovers :
         CreateAlbumBegin(p, TRUE, user, name, cover)
    \/ \E p \in Procs : CreateAlbumUpload(p)
    \/ \E p \in Procs : CreateAlbumCommit(p)
    \/ \E p \in Procs : CreateAlbumCompensate(p)
    \/ \E p \in Procs, user \in ConcUsers, id \in Ids, name \in NameOpt, cover \in ConcCovers :
         UpdateAlbumBegin(p, TRUE, user, id, name, cover)
    \/ \E p \in Procs : UpdateAlbumUpload(p)
    \/ \E p \in Procs : UpdateAlbumDeleteOld(p)
    \/ \E p \in Procs : UpdateAlbumCommit(p)
    \/ \E p \in Procs : UpdateAlbumCompensate(p)
    \/ \E p \in Procs, user \in ConcUsers, id \in Ids : DeleteAlbumBegin(p, TRUE, user, id)
    \/ \E p \in Procs : DeleteAlbumDeleteCover(p)
    \/ \E p \in Procs : DeleteAlbumCommit(p)
    \/ \E p \in Procs, user \in ConcUsers, name \in Names, genre \in Genres,
          song \in ConcSongs, cover \in ConcCovers :
         CreateSongBegin(p, TRUE, user, name, genre, song, cover)
    \/ \E p \in Procs : CreateSongUploadSong(p)
    \/ \E p \in Procs : CreateSongUploadCover(p)
    \/ \E p \in Procs : CreateSongCommit(p)
    \/ \E p \in Procs : CreateSongCompensateSong(p)
    \/ \E p \in Procs : CreateSongCompensateCover(p)
    \/ \E p \in Procs, user \in ConcUsers, id \in Ids, name \in NameOpt, genre \in GenreOpt,
          cover \in ConcCovers :
         UpdateSongBegin(p, TRUE, user, id, name, genre, cover)
    \/ \E p \in Procs : UpdateSongUpload(p)
    \/ \E p \in Procs : UpdateSongDeleteOld(p)
    \/ \E p \in Procs : UpdateSongCommit(p)
    \/ \E p \in Procs, user \in ConcUsers, id \in Ids : DeleteSongBegin(p, TRUE, user, id)
    \/ \E p \in Procs : DeleteSongDeleteSong(p)
    \/ \E p \in Procs : DeleteSongDeleteCover(p)
    \/ \E p \in Procs : DeleteSongCommit(p)
    \/ \E p \in Procs : Return(p)
Spec == Init /\ [][Next]_vars

\* The like / unlike requests of several workers at once, on a catalog that
\* holds one song nobody has liked yet.
LikeInit ==
    /\ albums = {}
    /\ songs = {[id |-> 1, name |-> "Echoes", singer_id |-> 1, genre |-> "pop",
                 cover |-> KeyOf(2), cover_url |-> UrlOf(2),
                 song |-> KeyOf(1), song_url |-> UrlOf(1), like_count |-> 0]}
    /\ song_likes = [e \in Users \X Ids |-> 0]
    /\ bucket = {1, 2}
    /\ nextBlob = 3
    /\ nextAlbumId = 1
    /\ nextSongId = 2
    /\ pc = [p \in Procs |-> "idle"]
    /\ loc = [p \in Procs |-> NoLoc]
    /\ resp = [p \in Procs |-> NoResp]
    /\ last = NoLast

LikeNext ==
    \/ \E p \in Procs, user \in Users, id \in Ids : LikeBegin(p, TRUE, user, id)
    \/ \E p \in Procs : LikeSelect(p)
    \/ \E p \in Procs : LikeCommit(p)
    \/ \E p \in Procs : Return(p)
LikeSpec == LikeInit /\ [][LikeNext]_vars

\* The like / unlike requests served one at a time; the worker remembers the
\* request before the current one.
Remember(p) ==
    /\ pc[p] = "done"
    /\ pc' = [pc EXCEPT ![p] = "idle"]
    /\ loc' = [loc EXCEPT ![p] = NoLoc]
    /\ resp' = [resp EXCEPT ![p] = NoResp]
    /\ last' = [op |-> loc[p].op, user |-> loc[p].user, id |-> loc[p].id,
                status |-> resp[p].status, before |-> last.after, after |-> Tables]
    /\ UNCHANGED <<stores, nextBlob, nextAlbumId, nextSongId>>

LikeSeqNext ==
    \/ \E user \in Users, id \in Ids : LikeBegin(Worker, AllIdle, user, id)
    \/ LikeSelect(Worker)
    \/ LikeCommit(Worker)
    \/ Remember(Worker)
LikeSeqSpec == LikeInit /\ [][LikeSeqNext]_vars

\* The update requests of several workers at once, on a catalog that holds one
\* album and one song of the same singer.  The blobs of the catalog were
\* uploaded before the behaviour starts: their names are below the first name
\* an upload of the behaviour gets.
UpdateInit ==
    /\ albums = {[id |-> 1, name |-> "Echoes", singer_id |-> 1,
                  cover |-> KeyOf(-2), cover_url |-> UrlOf(-2)]}
    /\ songs = {[id |-> 1, name |-> "Echoes", singer_id |-> 1, genre |-> "pop",
                 cover |-> KeyOf(0), cover_url |-> UrlOf(0),
                 song |-> KeyOf(-1), song_url |-> UrlOf(-1), like_count |-> 0]}
    /\ song_likes = [e \in Users \X Ids |-> 0]
    /\ bucket = {-2, -1, 0}
    /\ nextBlob = 1
    /\ nextAlbumId = 2
    /\ nextSongId = 2
    /\ pc = [p \in Procs |-> "idle"]
    /\ loc = [p \in Procs |-> NoLoc]
    /\ resp = [p \in Procs |-> NoResp]
    /\ last = NoLast

UpdateNext ==
    \/ \E p \in Procs, user \in ConcUsers, id \in Ids, name \in NameOpt, cover \in ConcCovers :
         UpdateAlbumBegin(p, TRUE, user, id, name, cover)
    \/ \E p \in Procs : UpdateAlbumUpload(p)
    \/ \E p \in Procs : UpdateAlbumDeleteOld(p)
    \/ \E p \in Procs : UpdateAlbumCommit(p)
    \/ \E p \in Procs : UpdateAlbumCompensate(p)
    \/ \E p \in Procs, user \in ConcUsers, id \in Ids, name \in NameOpt, genre \in GenreOpt,
          cover \in ConcCovers :
         UpdateSongBegin(p, TRUE, user, id, name, genre, cover)
    \/ \E p \in Procs : UpdateSongUpload(p)
    \/ \E p \in Procs : UpdateSongDeleteOld(p)
    \/ \E p \in Procs : UpdateSongCommit(p)
    \/ \E p \in Procs : Return(p)
UpdateSpec == UpdateInit /\ [][UpdateNext]_vars

\* ------------------------------------------------------------------ claims
Done(p) == pc[p] = "done"
IsCreate(l) == l.op \in {"create_album", "create_song"}
IsUpdate(l) == l.op \in {"update_album", "update_song"}
Table(l) == IF l.op \in {"create_album", "update_album", "delete_album"} THEN albums ELSE songs
\* The blobs the request uploaded.
Uploaded(l) == {BlobOf(r) : r \in {x \in {l.blob_name, l.song_blob_name} : IsRef(x)}}
\* The blobs a row names, by key and by url.
RowBlobs(r, kind) ==
    {BlobOf(r.cover), BlobOf(r.cover_url)}
      \cup (IF kind = "song" THEN {BlobOf(r.song), BlobOf(r.song_url)} ELSE {})
Referenced == UNION ({RowBlobs(r, "album") : r \in albums}
                       \cup {RowBlobs(r, "song") : r \in songs})
\* C1: a create whose uploads all succeeded and whose commit then failed has
\* returned: none of the blobs it uploaded is in the bucket and no row names them.
C1_CreateFailureLeavesNothing ==
    \A p \in Procs :
      (Done(p) /\ IsCreate(loc[p])
          /\ \E i \in 1..Len(loc[p].log) : loc[p].log[i] = "commit_fail")
        => /\ Uploaded(loc[p]) \cap bucket = {}
           /\ ~\E r \in Table(loc[p]) : r.cover = loc[p].blob_name

\* C2: once the requests have returned, every row's cover (and a song row's
\* audio file) names a blob that is in the bucket.
C2_NoDanglingRef == AllIdle => Referenced \subseteq bucket

\* C3: between two requests served one at a time, every blob in the bucket is
\* named by some row.
C3_NoOrphanBlob == AllIdle => bucket \subseteq Referenced

\* C4: an update that replaced the cover has returned success: the blob the
\* row named before is gone, the new blob is in the bucket, and the row's cover
\* and cover_url are those the upload returned.
C4_UpdateReplacesCover ==
    \A p \in Procs :
      (Done(p) /\ IsUpdate(loc[p]) /\ resp[p].status = 200 /\ loc[p].hasCover)
        => /\ BlobOf(loc[p].row.cover) \notin bucket
           /\ BlobOf(loc[p].blob_name) \in bucket
           /\ Get(Table(loc[p]), loc[p].id).cover = loc[p].blob_name
           /\ Get(Table(loc[p]), loc[p].id).cover_url = loc[p].public_url

\* C5: an update whose upload succeeded has returned an error: the old blob is
\* still in the bucket, the new blob is not, and the row is as it was.
C5_FailedUpdateRestores ==
    \A p \in Procs :
      (Done(p) /\ IsUpdate(loc[p]) /\ resp[p].status = 500 /\ IsRef(loc[p].blob_name))
        => /\ BlobOf(loc[p].row.cover) \in bucket
           /\ BlobOf(loc[p].blob_name) \notin bucket
           /\ Get(Table(loc[p]), loc[p].id) = loc[p].row

\* C6: a song's like_count is the number of Song_Likes rows of that song.
C6_CountMatchesEdges == \A s \in songs : s.like_count = EdgeSum(Users, s.id)

\* C7: Song_Likes never holds two rows for the same (user_id, song_id).
C7_EdgeUnique == \A e \in Users \X Ids : song_likes[e] <= 1

\* Two requests of the same user on the same song both found no row; one has
\* inserted its row and returned, the other is about to commit.
C7_Witness ==
    \E p \in Procs, q \in Procs :
      /\ p # q
      /\ Done(p) /\ resp[p] = [status |-> 200, detail |-> "liked"]
      /\ loc[p].op = "like_or_unlike_song"
      /\ pc[q] = "lk_commit" /\ ~loc[q].already_liked
      /\ loc[q].user = loc[p].user /\ loc[q].id = loc[p].id
      /\ song_likes[<<loc[p].user, loc[p].id>>] = 1

\* C8: no two rows of a table have the same name and the same singer_id.
C8_NameUnique ==
    /\ \A r1 \in albums, r2 \in albums :
         (r1.name = r2.name /\ r1.singer_id = r2.singer_id) => r1 = r2
    /\ \A r1 \in songs, r2 \in songs :
         (r1.name = r2.name /\ r1.singer_id = r2.singer_id) => r1 = r2

\* The second of two successful like / unlike requests in a row by one user on
\* one song has returned.
TwoInARow(p) ==
    /\ Done(p) /\ loc[p].op = "like_or_unlike_song" /\ resp[p].status = 200
    /\ last.op = "like_or_unlike_song" /\ last.status = 200
    /\ last.user = loc[p].user /\ last.id = loc[p].id

\* C9: after two like / unlike requests in a row by one user on one song,
\* Song_Likes and the song's row are as they were before the first; when the
\* first found no row, it inserted one and added 1 to like_count.
C9_TwiceIsIdentity ==
    \A p \in Procs :
      TwoInARow(p) =>
        LET e == <<last.user, last.id>>
        IN /\ song_likes = last.before[1]
           /\ songs = last.before[2]
           /\ last.before[1][e] = 0 =>
                /\ last.after[1][e] = 1
                /\ Get(last.after[2], last.id).like_count
                     = Get(last.before[2], last.id).like_count + 1

C9_Witness ==
    \E p \in Procs : TwoInARow(p) /\ last.before[1][<<last.user, last.id>>] = 0

\* C10: a create or an update by a caller allowed to make it, with a file that
\* breaks the upload policy, is rejected as a validation error before any call
\* to the bucket or any commit.
C10_ValidationBeforeIO ==
    \A p \in Procs :
      (/\ Done(p) /\ loc[p].viol
       /\ IsCreate(loc[p]) \/ (loc[p].row # NoRow /\ loc[p].row.singer_id = loc[p].user))
        => resp[p].detail = "validation" /\ loc[p].log = <<>>

IsDelete(l) == l.op \in {"delete_album", "delete_song"}

\* C11: an update or a delete of an entity that does not exist answers 404
\* not found, one of an entity whose singer_id is not the caller answers 403
\* forbidden; either way the request is over in that step and the tables and
\* the bucket are as before.
C11_ChecksBeforeIO ==
    [][\A p \in Procs :
         (pc[p] = "idle" /\ pc'[p] # "idle" /\ (IsUpdate(loc'[p]) \/ IsDelete(loc'[p])))
           => LET row == Get(Table(loc'[p]), loc'[p].id)
              IN /\ row = NoRow
                      => /\ pc'[p] = "done"
                         /\ resp'[p] = [status |-> 404, detail |-> "not_found"]
                         /\ UNCHANGED stores
                 /\ (row # NoRow /\ row.singer_id # loc'[p].user)
                      => /\ pc'[p] = "done"
                         /\ resp'[p] = [status |-> 403, detail |-> "forbidden"]
                         /\ UNCHANGED stores]_vars

\* A caller who is not the owner has been refused, on a catalog whose bucket
\* holds the blobs of the entity.
C11_Witness ==
    \E p \in Procs :
      /\ Done(p) /\ (IsUpdate(loc[p]) \/ IsDelete(loc[p]))
      /\ resp[p].status = 403
      /\ Get(Table(loc[p]), loc[p].id) # NoRow
      /\ BlobOf(Get(Table(loc[p]), loc[p].id).cover) \in bucket

\* The caller of the update owns the row the update is about.
ByOwner(l) == l.row # NoRow /\ l.row.singer_id = l.user
\* Another row of the caller already has the name the update supplies.
NameTaken(l) ==
    \E r \in Table(l) : r.id # l.id /\ r.name = l.name /\ r.singer_id = l.user

\* C12: an update by the owner without a cover, with a name or a genre that no
\* other row of the owner has, has returned: it succeeded, the row has the
\* supplied fields, its cover and cover_url are as before, and no call to the
\* bucket was made.
C12_PartialUpdate ==
    \A p \in Procs :
      (/\ Done(p) /\ IsUpdate(loc[p]) /\ ByOwner(loc[p])
       /\ ~loc[p].hasCover
       /\ loc[p].name # None \/ loc[p].genre # None
       /\ ~NameTaken(loc[p]))
        => LET now == Get(Table(loc[p]), loc[p].id)
           IN /\ resp[p].status = 200
              /\ now.cover = loc[p].row.cover /\ now.cover_url = loc[p].row.cover_url
              /\ loc[p].name # None => now.name = loc[p].name
              /\ loc[p].log = <<"commit_ok">>

\* The call ev is among those the request made.
Logged(l, ev) == \E i \in 1..Len(l.log) : l.log[i] = ev
\* What a delete answers when its first call to the bucket raises, before
\* anything was removed.
UpstreamFailure == [status |-> 500, detail |-> "error"]

\* C13: a delete that removed a blob and then failed has returned: its answer
\* is not the one of a delete that failed before it removed anything.
C13_PartialDeleteDistinct ==
    \A p \in Procs :
      (Done(p) /\ IsDelete(loc[p]) /\ resp[p].status # 200 /\ Logged(loc[p], "delete_ok"))
        => resp[p] # UpstreamFailure

\* C14: an update by the owner with a cover that passes validation has
\* returned: it was refused as a conflict exactly when it supplied a name that
\* another row of the owner has.
C14_ConflictOnlyWithOthers ==
    \A p \in Procs :
      (Done(p) /\ IsUpdate(loc[p]) /\ ByOwner(loc[p]) /\ loc[p].hasCover /\ ~loc[p].viol)
        => (resp[p].detail = "conflict" <=> (loc[p].name # None /\ NameTaken(loc[p])))

\* C15: a create_song whose audio upload succeeded and whose cover upload
\* failed has returned, and no delete_file it called has failed: the audio
\* blob is not in the bucket, no row names it, and the answer is an error.
C15_PartialUploadCompensated ==
    \A p \in Procs :
      (/\ Done(p) /\ loc[p].op = "create_song"
       /\ IsRef(loc[p].song_blob_name) /\ Logged(loc[p], "upload_fail")
       /\ ~Logged(loc[p], "delete_fail"))
        => /\ BlobOf(loc[p].song_blob_name) \notin bucket
           /\ ~\E r \in songs : r.song = loc[p].song_blob_name
           /\ resp[p].status # 200

\* The positions of the log at which one of the calls evs was made.
At(l, evs) == {i \in 1..Len(l.log) : l.log[i] \in evs}

\* C16: a create that uploaded a blob and then failed has returned: it called
\* rollback before every compensating delete_file, and it called delete_file
\* once for each blob it uploaded, whether the rollback succeeded or raised.
C16_CompensationDespiteRollback ==
    \A p \in Procs :
      (Done(p) /\ IsCreate(loc[p]) /\ resp[p].status # 200 /\ Uploaded(loc[p]) # {})
        => /\ \A d \in At(loc[p], {"delete_ok", "delete_fail"}) :
                \E r \in At(loc[p], {"rollback_ok", "rollback_fail"}) : r < d
           /\ Cardinality(At(loc[p], {"delete_ok", "delete_fail"}))
                = Cardinality(Uploaded(loc[p]))

\* C17: as long as an update has not got the blob of its upload, its steps
\* remove nothing from the bucket and change no row; the step in which the
\* upload fails ends the request with an error and leaves the tables and the
\* bucket as they were.
C17_UploadBeforeDelete ==
    [][\A p \in Procs :
         (IsUpdate(loc[p]) /\ pc[p] # "done" /\ ~IsRef(loc[p].blob_name))
           => /\ bucket \subseteq bucket'
              /\ albums' = albums /\ songs' = songs
              /\ ~IsRef(loc'[p].blob_name)
                   => /\ pc'[p] = "done" /\ resp'[p].status = 500
                      /\ UNCHANGED stores]_vars

\* The upload of an update failed and the request has returned; the blob the
\* row names is in the bucket.
C17_Witness ==
    \E p \in Procs :
      /\ Done(p) /\ IsUpdate(loc[p]) /\ Logged(loc[p], "upload_fail")
      /\ BlobOf(loc[p].row.cover) \in bucket
      /\ Get(Table(loc[p]), loc[p].id) = loc[p].row

Kind(l) == IF l.op \in {"create_song", "update_song", "delete_song"} THEN "song" ELSE "album"

\* C18: the step in which a delete by the owner succeeds starts with the row
\* in its table and none of the blobs the row names in the bucket, and ends
\* with the row gone and the bucket as it was.
C18_DeleteBlobsFirst ==
    [][\A p \in Procs :
         (IsDelete(loc[p]) /\ pc[p] # "done" /\ pc'[p] = "done" /\ resp'[p].status = 200)
           => LET row == Get(Table(loc[p]), loc[p].id)
              IN /\ row # NoRow /\ row.singer_id = loc[p].user
                 /\ RowBlobs(row, Kind(loc[p])) \cap bucket = {}
                 /\ Get(Table(loc[p]), loc[p].id)' = NoRow
                 /\ bucket' = bucket]_vars

\* A delete_song has succeeded: the row is gone and so are the audio blob and
\* the cover blob it named.
C18_Witness ==
    \E p \in Procs :
      /\ Done(p) /\ loc[p].op = "delete_song" /\ resp[p].status = 200
      /\ Get(songs, loc[p].id) = NoRow
      /\ IsRef(loc[p].row.song) /\ IsRef(loc[p].row.cover)
      /\ RowBlobs(loc[p].row, "song") \cap bucket = {}
      /\ Cardinality(At(loc[p], {"delete_ok"})) = 2

\* q is an update that replaced the cover of the entity p is updating and
\* changed its name, has committed and has returned; p loaded the row q loaded,
\* which has the name of before.
CommittedBefore(q, p) ==
    /\ q # p /\ Done(q) /\ resp[q].status = 200
    /\ loc[q].op = loc[p].op /\ loc[q].id = loc[p].id
    /\ loc[q].hasCover /\ loc[q].name # None
    /\ loc[p].row # NoRow /\ loc[q].row = loc[p].row

\* C19: of two updates that replace the cover of one entity at the same time,
\* the second to commit returns: the row's cover and cover_url are those of its
\* upload, that blob is in the bucket, and it is none of the blobs the two
\* updates deleted.
C19_LastCommitWins ==
    [][\A p \in Procs :
         (/\ IsUpdate(loc[p]) /\ loc[p].hasCover
          /\ pc[p] # "done" /\ pc'[p] = "done" /\ resp'[p].status = 200
          /\ \E q \in Procs : CommittedBefore(q, p))
           => LET now == Get(Table(loc[p]), loc[p].id)'
              IN /\ now.cover = loc[p].blob_name /\ now.cover_url = loc[p].public_url
                 /\ BlobOf(now.cover) \in bucket'
                 /\ now.cover # loc[p].row.cover]_vars

\* C20: no step changes the singer_id of a row, and a row that enters a table
\* is inserted by the commit of a create and has the caller of that create as
\* its singer_id.
C20_OwnerFixed ==
    [][/\ \A r \in albums, n \in albums' : n.id = r.id => n.singer_id = r.singer_id
       /\ \A r \in songs, n \in songs' : n.id = r.id => n.singer_id = r.singer_id
       /\ \A n \in albums' :
            (\A r \in albums : r.id # n.id)
              => \E p \in Procs : /\ pc[p] = "ca_commit" /\ pc'[p] = "done"
                                  /\ n.singer_id = loc[p].user
       /\ \A n \in songs' :
            (\A r \in songs : r.id # n.id)
              => \E p \in Procs : /\ pc[p] = "cs_commit" /\ pc'[p] = "done"
                                  /\ n.singer_id = loc[p].user]_vars

\* An update by the second singer has changed the name of a row of theirs.
C20_Witness ==
    \E p \in Procs :
      /\ Done(p) /\ IsUpdate(loc[p]) /\ resp[p].status = 200 /\ loc[p].user = 2
      /\ Get(Table(loc[p]), loc[p].id).name # loc[p].row.name
      /\ Get(Table(loc[p]), loc[p].id).singer_id = 2

\* C21: the like_count of a song is never below 0, whatever the like / unlike
\* requests and however they interleave.
C21_CountNonNegative == \A s \in songs : s.like_count >= 0

====
